---- MODULE Spec2Model ----
(***************************************************************************)
(* Model of 3body.py: an interactive gravitational N-body simulator.       *)
(*                                                                         *)
(* The program computes with IEEE doubles (Python float / numpy float64).  *)
(* A double is modelled by a decimal floating-point number with DIGITS     *)
(* significant digits, a record [m, e] standing for m * 10^e with          *)
(* 1000 <= |m| <= 9999 (or m = 0, e = 0).  Every arithmetic operation      *)
(* rounds its exact result to nearest (ties to even), as the hardware      *)
(* does, so that rounding effects of the code (non-associativity of the    *)
(* product G * m1 * m2, absorption in sums) exist in the model too.        *)
(***************************************************************************)
EXTENDS Integers, Sequences, FiniteSets, TLC

\* ------------------------------------------------------------------------
\* Floating point
\* ------------------------------------------------------------------------
DIGITS == 4

RECURSIVE Pow10(_)
Pow10(k) == IF k <= 0 THEN 1 ELSE 10 * Pow10(k - 1)

Abs(n) == IF n < 0 THEN 0 - n ELSE n

Sign(n) == IF n < 0 THEN 0 - 1 ELSE 1

RECURSIVE NumDigits(_)
NumDigits(n) == IF n < 10 THEN 1 ELSE 1 + NumDigits(n \div 10)

Zero == [m |-> 0, e |-> 0]

\* round the exact value n * 10^e to DIGITS significant digits, ties to even
Round(n, e) ==
  IF n = 0 THEN Zero
  ELSE LET a == Abs(n)
           k == NumDigits(a) - DIGITS
       IN IF k <= 0
          THEN [m |-> n * Pow10(0 - k), e |-> e + k]
          ELSE LET q    == a \div Pow10(k)
                   r    == a % Pow10(k)
                   half == 5 * Pow10(k - 1)
                   up   == IF r > half \/ (r = half /\ q % 2 = 1) THEN 1 ELSE 0
                   q2   == q + up
               IN IF q2 = Pow10(DIGITS)
                  THEN [m |-> Sign(n) * Pow10(DIGITS - 1), e |-> e + k + 1]
                  ELSE [m |-> Sign(n) * q2, e |-> e + k]

Fl(n, e) == Round(n, e)

FromInt(n) == Round(n, 0)

FNeg(a) == [m |-> 0 - a.m, e |-> a.e]

FMul(a, b) == Round(a.m * b.m, a.e + b.e)

\* a + b; an addend below a tenth of the other's last digit is absorbed
FAdd(a, b) ==
  IF a.m = 0 THEN b
  ELSE IF b.m = 0 THEN a
  ELSE LET hi == IF a.e >= b.e THEN a ELSE b
           lo == IF a.e >= b.e THEN b ELSE a
           d  == hi.e - lo.e
       IN IF d > DIGITS + 1 THEN hi
          ELSE Round(hi.m * Pow10(d) + lo.m, lo.e)

FSub(a, b) == FAdd(a, FNeg(b))

\* a / b for b # 0; the last digit of the scaled quotient is a sticky digit
FDiv(a, b) ==
  IF a.m = 0 THEN Zero
  ELSE LET n   == Abs(a.m) * Pow10(DIGITS + 1)
           d   == Abs(b.m)
           q   == n \div d
           st  == IF n % d = 0 THEN 0 ELSE 1
       IN Round(Sign(a.m) * Sign(b.m) * (q * 10 + st), a.e - b.e - DIGITS - 2)

RECURSIVE BSqrt(_, _, _)
BSqrt(x, lo, hi) ==
  IF lo >= hi THEN lo
  ELSE LET mid == (lo + hi + 1) \div 2
       IN IF mid * mid <= x THEN BSqrt(x, mid, hi) ELSE BSqrt(x, lo, mid - 1)

\* correctly rounded square root of a >= 0
FSqrt(a) ==
  IF a.m = 0 THEN Zero
  ELSE LET odd == (a.e % 2 = 1)
           x   == IF odd THEN a.m * Pow10(DIGITS + 1) ELSE a.m * Pow10(DIGITS)
           ex  == IF odd THEN a.e - DIGITS - 1 ELSE a.e - DIGITS
           s   == BSqrt(x, 0, 31622)
       IN IF s < Pow10(DIGITS)
          THEN Round(s + (IF x > s * s + s THEN 1 ELSE 0), ex \div 2)
          ELSE LET q   == s \div 10
                   mid == 10 * q + 5
                   up  == IF x > mid * mid \/ (x = mid * mid /\ q % 2 = 1)
                          THEN 1 ELSE 0
               IN Round(q + up, (ex \div 2) + 1)

FLt(a, b) == FSub(a, b).m < 0

FLe(a, b) == FSub(a, b).m <= 0

FMin(a, b) == IF FLt(b, a) THEN b ELSE a

FMax(a, b) == IF FLt(a, b) THEN b ELSE a


\* ------------------------------------------------------------------------
\* Constants of the program
\* ------------------------------------------------------------------------
WIDTH == 800
HEIGHT == 750
SLIDER_WIDTH == 300
THUMB_WIDTH == 10
THUMB_HEIGHT == 20
INITIAL_TIMESTEP == 1000

\* 6.6743e-11 at the model's precision
G == Fl(6674, 0 - 14)
SCALE == Fl(1, 9)
PROXIMA_MIN_MASS == Fl(238, 27)
PLUTO_MIN_MASS == Fl(131, 20)
JUPITER_MAX_MASS == Fl(1898, 24)
\* r_mag < 1e7 is replaced by 1e7
SOFTENING == Fl(1, 7)
\* mass gained per second of hold in star mode
STAR_MASS_RATE == Fl(3, 29)
\* max_hold_time
MAX_HOLD_TIME == Fl(15, 0)
\* velocity per pixel of drag
DRAG_VELOCITY == Fl(1, 3)

\* slider_rect = Rect(WIDTH // 2 - SLIDER_WIDTH // 2, HEIGHT - 50, ...)
SliderLeft == (WIDTH \div 2) - (SLIDER_WIDTH \div 2)
SliderRight == SliderLeft + SLIDER_WIDTH
\* slider_thumb_rect = Rect(left + TIMESTEP // 1000, HEIGHT - 55, 10, 20)
ThumbInitX == SliderLeft + (INITIAL_TIMESTEP \div 1000)
ThumbTop == HEIGHT - 55

Modes == {"star", "planet"}

\* ------------------------------------------------------------------------
\* Bounds of the model
\* ------------------------------------------------------------------------
MaxBodies == 3
MaxSteps == 1

\* event.pos of the mouse events on the canvas: its centre
CanvasPoints == { <<400, 375>> }
\* event.pos of the button events on the slider: a pixel of the thumb
SliderButtonPoints == { <<255, 700>> }
\* event.pos of the motion events on the slider: left of its left end, on it,
\* and right of the last position of the thumb
SliderMotionPoints == { <<250, 700>>, <<255, 700>>, <<545, 700>> }
\* seconds between mouse down and a mouse motion (time.time() difference):
\* a motion right after the press, and one a second later
ShortHolds == { Zero }
LongHolds == { Fl(1, 0) }

\* ------------------------------------------------------------------------
\* State
\* ------------------------------------------------------------------------
VARIABLES
  bodies,              \* list of [mass, state = <<x, y, vx, vy>>, type]
  simulation_running,
  camera_offset,       \* <<x, y>>
  focused_body_index,  \* Python index, -1 = no focus
  slider_thumb_x,      \* slider_thumb_rect.x
  dragging_slider,
  current_mode,
  TIMESTEP,            \* integer seconds
  click_position,      \* None (the empty tuple) or <<x, y>>
  preview_mass,
  forces,              \* result of compute_forces, when the last handler ran it
  pairs,               \* locals of compute_forces per ordered pair, when the last handler ran it
  tab,                 \* how the focus-cycle loop ran, when the last handler ran it
  call_mass,           \* << mass >> when the last handler called add_body(.., mass)
  del_index,           \* << k >> when the last handler ran del bodies[k]
  steps                \* number of integration steps taken

vars == << bodies, simulation_running, camera_offset, focused_body_index,
           slider_thumb_x, dragging_slider, current_mode, TIMESTEP,
           click_position, preview_mass, forces, pairs, tab, call_mass,
           del_index, steps >>

N(bs) == Len(bs)

\* bodies[k] for a Python index k that is in range
Item(bs, k) == bs[k + 1]

InRange(bs, k) == 0 <= k /\ k < Len(bs)

ZeroVec == << Zero, Zero >>

None == << >>

\* ------------------------------------------------------------------------
\* compute_forces
\* ------------------------------------------------------------------------
VAdd(u, v) == << FAdd(u[1], v[1]), FAdd(u[2], v[2]) >>

VNeg(u) == << FNeg(u[1]), FNeg(u[2]) >>

Position(b) == << b.state[1], b.state[2] >>

Velocity(b) == << b.state[3], b.state[4] >>

\* the displacement with the wrong slice of body1 ([2:] instead of [:2])
RVecWrongSlice(body1, body2) ==
  << FSub(body2.state[1], body1.state[3]), FSub(body2.state[2], body1.state[4]) >>

\* r_vec = body2["state"][:2] - body1["state"][:2]
RVec(body1, body2) ==
  << FSub(body2.state[1], body1.state[1]), FSub(body2.state[2], body1.state[2]) >>

\* np.linalg.norm(r_vec)
Norm(v) == FSqrt(FAdd(FMul(v[1], v[1]), FMul(v[2], v[2])))

\* the softening with a floor of 1e6 in the assignment
SoftenWrongFloor(r_mag) == IF FLt(r_mag, SOFTENING) THEN Fl(1, 6) ELSE r_mag

\* if r_mag < 1e7: r_mag = 1e7
Soften(r_mag) == IF FLt(r_mag, SOFTENING) THEN SOFTENING ELSE r_mag

\* r_mag**3
Cube(r) == FMul(FMul(r, r), r)

\* G * body1["mass"] * body2["mass"], evaluated left to right
Coefficient(body1, body2) == FMul(FMul(G, body1.mass), body2.mass)

\* one evaluation of the inner loop body for the pair (body1, body2)
PairEval(body1, body2) ==
  LET r_vec == RVec(body1, body2)
      norm  == Norm(r_vec)
      r_mag == Soften(norm)
      coef  == Coefficient(body1, body2)
      cube  == Cube(r_mag)
  IN [ r_vec   |-> r_vec,
       norm    |-> norm,
       r_mag   |-> r_mag,
       coef    |-> coef,
       contrib |-> << FDiv(FMul(coef, r_vec[1]), cube),
                      FDiv(FMul(coef, r_vec[2]), cube) >> ]

\* the inner loop over j for body i, from index j on, force accumulated so far
RECURSIVE Accumulate(_, _, _, _)
Accumulate(bs, i, j, force) ==
  IF j > Len(bs) THEN force
  ELSE IF j = i THEN Accumulate(bs, i, j + 1, force)
  ELSE Accumulate(bs, i, j + 1, VAdd(force, PairEval(bs[i], bs[j]).contrib))

ForceOn(bs, i) == Accumulate(bs, i, 1, ZeroVec)

compute_forces(bs) == [ i \in 1..Len(bs) |-> ForceOn(bs, i) ]

OrderedPairs(n) == { p \in (1..n) \X (1..n) : p[1] # p[2] }

\* the locals of every inner iteration of compute_forces
PairLocals(bs) == [ p \in OrderedPairs(Len(bs)) |-> PairEval(bs[p[1]], bs[p[2]]) ]

\* ------------------------------------------------------------------------
\* update_bodies
\* ------------------------------------------------------------------------
\* the two statements in the other order: the position moves by the old velocity
UpdateBodyExplicit(body, force, dt) ==
  LET acceleration == << FDiv(force[1], body.mass), FDiv(force[2], body.mass) >>
      s0 == body.state
      s1 == [ s0 EXCEPT ![1] = FAdd(s0[1], FMul(s0[3], FromInt(dt))),
                        ![2] = FAdd(s0[2], FMul(s0[4], FromInt(dt))) ]
      s2 == [ s1 EXCEPT ![3] = FAdd(s1[3], FMul(acceleration[1], FromInt(dt))),
                        ![4] = FAdd(s1[4], FMul(acceleration[2], FromInt(dt))) ]
  IN [ body EXCEPT !.state = s2 ]

\* the two statements of the loop body, in order, on one body
UpdateBody(body, force, dt) ==
  LET acceleration == << FDiv(force[1], body.mass), FDiv(force[2], body.mass) >>
      s0 == body.state
      s1 == [ s0 EXCEPT ![3] = FAdd(s0[3], FMul(acceleration[1], FromInt(dt))),
                        ![4] = FAdd(s0[4], FMul(acceleration[2], FromInt(dt))) ]
      s2 == [ s1 EXCEPT ![1] = FAdd(s1[1], FMul(s1[3], FromInt(dt))),
                        ![2] = FAdd(s1[2], FMul(s1[4], FromInt(dt))) ]
  IN [ body EXCEPT !.state = s2 ]

update_bodies(bs, fs, dt) == [ i \in 1..Len(bs) |-> UpdateBody(bs[i], fs[i], dt) ]

\* one loop that computes the force on body i and moves it at once, so that
\* the bodies after i read the moved position of i
RECURSIVE Interleave(_, _, _, _, _)
Interleave(cur, i, fs, ps, dt) ==
  IF i > Len(cur)
  THEN [ forces |-> fs, pairs |-> ps, bodies |-> cur ]
  ELSE LET f  == ForceOn(cur, i)
           pi == [ p \in { q \in OrderedPairs(Len(cur)) : q[1] = i } |->
                     PairEval(cur[p[1]], cur[p[2]]) ]
       IN Interleave([ cur EXCEPT ![i] = UpdateBody(cur[i], f, dt) ], i + 1,
                     Append(fs, f), pi @@ ps, dt)

StepInterleaved(bs, dt) == Interleave(bs, 1, << >>, << >>, dt)

\* forces = compute_forces(bodies); update_bodies(bodies, forces)
Step(bs, dt) ==
  LET fs == compute_forces(bs)
  IN [ forces |-> fs, pairs |-> PairLocals(bs), bodies |-> update_bodies(bs, fs, dt) ]

\* ------------------------------------------------------------------------
\* add_body
\* ------------------------------------------------------------------------
\* the "state" array of a new body
NewState(position, velocity, cam) ==
  << FAdd(FMul(FromInt(position[1] - (WIDTH \div 2)), SCALE), cam[1]),
     FAdd(FMul(FromInt(position[2] - (HEIGHT \div 2)), SCALE), cam[2]),
     velocity[1], velocity[2] >>

\* mass = mass if mass else PROXIMA_MIN_MASS
StarMass(mass) == IF mass.m # 0 THEN mass ELSE PROXIMA_MIN_MASS

\* mass = min(JUPITER_MAX_MASS, mass)
PlanetMass(mass) == FMin(JUPITER_MAX_MASS, mass)

\* the list after add_body(position, velocity, mode, mass)
add_body(bs, cam, position, velocity, mode, mass) ==
  IF mode = "star"
  THEN Append(bs, [ mass  |-> StarMass(mass),
                    state |-> NewState(position, velocity, cam),
                    type  |-> "star" ])
  ELSE IF mode = "planet"
  THEN Append(bs, [ mass  |-> PlanetMass(mass),
                    state |-> NewState(position, velocity, cam),
                    type  |-> "planet" ])
  ELSE bs

\* focused_body_index = len(bodies) - 1
FocusAfterAdd(bs) == Len(bs) - 1

\* ------------------------------------------------------------------------
\* Focus cycle (K_TAB) and deletion (K_x)
\* ------------------------------------------------------------------------
\* the loop without the restart of start_index at 0
RECURSIVE TabLoopNoRestart(_, _, _, _, _)
TabLoopNoRestart(bs, mode, focus, start_index, examined) ==
  IF examined >= 2 * Len(bs) + 2
  THEN [ focus |-> focus, examined |-> examined, terminated |-> FALSE ]
  ELSE LET f == (focus + 1) % Len(bs)
       IN IF bs[f + 1].type = mode
          THEN [ focus |-> f, examined |-> examined + 1, terminated |-> TRUE ]
          ELSE IF f = start_index
          THEN [ focus |-> 0 - 1, examined |-> examined + 1, terminated |-> TRUE ]
          ELSE TabLoopNoRestart(bs, mode, f, start_index, examined + 1)

\* iterations after which the scan of n bodies is given up as not terminating
TabFuel(n) == 2 * n + 2

\* the while-True loop; examined counts the bodies whose type was tested
RECURSIVE TabLoop(_, _, _, _, _)
TabLoop(bs, mode, focus, start_index, examined) ==
  IF examined >= TabFuel(Len(bs))
  THEN [ focus |-> focus, examined |-> examined, terminated |-> FALSE ]
  ELSE LET f == (focus + 1) % Len(bs)
       IN IF Item(bs, f).type = mode
          THEN [ focus |-> f, examined |-> examined + 1, terminated |-> TRUE ]
          ELSE IF f = start_index
          THEN [ focus |-> 0 - 1, examined |-> examined + 1, terminated |-> TRUE ]
          ELSE TabLoop(bs, mode, f,
                       IF start_index = 0 - 1 THEN 0 ELSE start_index,
                       examined + 1)

\* start_index = focused_body_index; while True: ...
FocusNext(bs, mode, focus) == TabLoop(bs, mode, focus, focus, 0)

\* a deletion that is off by one
DelItemOffByOne(bs, k) == [ i \in 1..(Len(bs) - 1) |-> IF i < k THEN bs[i] ELSE bs[i + 1] ]

\* del bodies[k]
DelItem(bs, k) == [ i \in 1..(Len(bs) - 1) |-> IF i <= k THEN bs[i] ELSE bs[i + 1] ]

\* a deletion that keeps the focus
FocusAfterDeleteKept(k) == k

\* focused_body_index after del bodies[focused_body_index]
FocusAfterDelete(k) == 0 - 1

\* ------------------------------------------------------------------------
\* Mouse helpers
\* ------------------------------------------------------------------------
\* slider_thumb_rect.collidepoint(pos)
ThumbCollides(thumb_x, pos) ==
  /\ thumb_x <= pos[1] /\ pos[1] < thumb_x + THUMB_WIDTH
  /\ ThumbTop <= pos[2] /\ pos[2] < ThumbTop + THUMB_HEIGHT

Max(a, b) == IF a >= b THEN a ELSE b

Min(a, b) == IF a <= b THEN a ELSE b

\* new_x = max(min(event.pos[0], slider_rect.right - thumb.width), slider_rect.left)
SliderNewX(x) == Max(Min(x, SliderRight - THUMB_WIDTH), SliderLeft)

\* TIMESTEP = (slider_thumb_rect.x - slider_rect.left) * 100
SliderTimestep(thumb_x) == (thumb_x - SliderLeft) * 100

\* preview_mass in star mode
StarPreview(hold_duration) == FAdd(PROXIMA_MIN_MASS, FMul(hold_duration, STAR_MASS_RATE))

\* preview_mass in planet mode
PlanetPreview(hold_duration) ==
  LET mass_range == FSub(JUPITER_MAX_MASS, PLUTO_MIN_MASS)
      progress   == FMin(FDiv(hold_duration, MAX_HOLD_TIME), FromInt(1))
      p2         == FMul(progress, progress)
      scaled_increment == FMul(mass_range, FMul(p2, p2))
  IN FMin(FAdd(PLUTO_MIN_MASS, scaled_increment), JUPITER_MAX_MASS)

PreviewMass(mode, hold_duration) ==
  IF mode = "star" THEN StarPreview(hold_duration) ELSE PlanetPreview(hold_duration)

\* raw_velocity, plus the focused body's velocity when a body is focused
ReleaseVelocity(bs, focus, click, release) ==
  LET raw == << FMul(FromInt(release[1] - click[1]), DRAG_VELOCITY),
                FMul(FromInt(release[2] - click[2]), DRAG_VELOCITY) >>
  IN IF focus # 0 - 1 THEN VAdd(raw, Velocity(Item(bs, focus))) ELSE raw

\* ------------------------------------------------------------------------
\* Initial state (module level assignments)
\* ------------------------------------------------------------------------
NoTab == << >>

NoCall == << >>

NoDel == << >>

Init ==
  /\ bodies = << >>
  /\ simulation_running = FALSE
  /\ camera_offset = ZeroVec
  /\ focused_body_index = 0 - 1
  /\ slider_thumb_x = ThumbInitX
  /\ dragging_slider = FALSE
  /\ current_mode = "star"
  /\ TIMESTEP = INITIAL_TIMESTEP
  /\ click_position = None
  /\ preview_mass = Zero
  /\ forces = << >>
  /\ pairs = << >>
  /\ tab = NoTab
  /\ call_mass = NoCall
  /\ del_index = NoDel
  /\ steps = 0

\* what a handler that neither integrates, cycles the focus, adds nor deletes
\* a body leaves of the records of those operations
NoRecords ==
  /\ forces' = << >>
  /\ pairs' = << >>
  /\ tab' = NoTab
  /\ call_mass' = NoCall
  /\ del_index' = NoDel

\* ------------------------------------------------------------------------
\* Event handlers of the main loop
\* ------------------------------------------------------------------------
KeySpace ==
  /\ simulation_running' = ~simulation_running
  /\ NoRecords
  /\ UNCHANGED << bodies, camera_offset, focused_body_index, slider_thumb_x,
                  dragging_slider, current_mode, TIMESTEP, click_position,
                  preview_mass, steps >>

KeyP ==
  /\ current_mode' = "planet"
  /\ NoRecords
  /\ UNCHANGED << bodies, simulation_running, camera_offset, focused_body_index,
                  slider_thumb_x, dragging_slider, TIMESTEP, click_position,
                  preview_mass, steps >>

KeyC ==
  /\ current_mode' = "star"
  /\ NoRecords
  /\ UNCHANGED << bodies, simulation_running, camera_offset, focused_body_index,
                  slider_thumb_x, dragging_slider, TIMESTEP, click_position,
                  preview_mass, steps >>

KeyTab ==
  /\ focused_body_index = 0 - 1 \/ InRange(bodies, focused_body_index)
  /\ IF Len(bodies) > 0
     THEN LET r == FocusNext(bodies, current_mode, focused_body_index)
          IN /\ focused_body_index' = r.focus
             /\ tab' = << [ unfocused  |-> (focused_body_index = 0 - 1),
                            examined   |-> r.examined,
                            terminated |-> r.terminated ] >>
     ELSE /\ UNCHANGED focused_body_index
          /\ tab' = NoTab
  /\ forces' = << >>
  /\ pairs' = << >>
  /\ call_mass' = NoCall
  /\ del_index' = NoDel
  /\ UNCHANGED << bodies, simulation_running, camera_offset, slider_thumb_x,
                  dragging_slider, current_mode, TIMESTEP, click_position,
                  preview_mass, steps >>

KeyU ==
  /\ focused_body_index' = 0 - 1
  /\ NoRecords
  /\ UNCHANGED << bodies, simulation_running, camera_offset, slider_thumb_x,
                  dragging_slider, current_mode, TIMESTEP, click_position,
                  preview_mass, steps >>

KeyX ==
  /\ focused_body_index = 0 - 1 \/ InRange(bodies, focused_body_index)
  /\ IF focused_body_index # 0 - 1
     THEN /\ bodies' = DelItem(bodies, focused_body_index)
          /\ focused_body_index' = FocusAfterDelete(focused_body_index)
          /\ del_index' = << focused_body_index >>
     ELSE /\ UNCHANGED << bodies, focused_body_index >>
          /\ del_index' = NoDel
  /\ forces' = << >>
  /\ pairs' = << >>
  /\ tab' = NoTab
  /\ call_mass' = NoCall
  /\ UNCHANGED << simulation_running, camera_offset, slider_thumb_x,
                  dragging_slider, current_mode, TIMESTEP, click_position,
                  preview_mass, steps >>

MouseButtonDown(pos) ==
  /\ IF ThumbCollides(slider_thumb_x, pos)
     THEN /\ dragging_slider' = TRUE
          /\ UNCHANGED << click_position, preview_mass >>
     ELSE /\ click_position' = pos
          /\ preview_mass' = PROXIMA_MIN_MASS
          /\ UNCHANGED dragging_slider
  /\ NoRecords
  /\ UNCHANGED << bodies, simulation_running, camera_offset, focused_body_index,
                  slider_thumb_x, current_mode, TIMESTEP, steps >>

MouseButtonUp(pos) ==
  /\ IF dragging_slider
     THEN /\ dragging_slider' = FALSE
          /\ call_mass' = NoCall
          /\ UNCHANGED << bodies, focused_body_index, click_position >>
     ELSE IF click_position # None
     THEN /\ Len(bodies) < MaxBodies
          /\ focused_body_index = 0 - 1 \/ InRange(bodies, focused_body_index)
          /\ LET velocity == ReleaseVelocity(bodies, focused_body_index,
                                             click_position, pos)
                 bs == add_body(bodies, camera_offset, click_position, velocity,
                                current_mode, preview_mass)
             IN /\ bodies' = bs
                /\ focused_body_index' = FocusAfterAdd(bs)
          /\ call_mass' = << preview_mass >>
          /\ click_position' = None
          /\ UNCHANGED dragging_slider
     ELSE /\ call_mass' = NoCall
          /\ UNCHANGED << bodies, focused_body_index, click_position,
                          dragging_slider >>
  /\ forces' = << >>
  /\ pairs' = << >>
  /\ tab' = NoTab
  /\ del_index' = NoDel
  /\ UNCHANGED << simulation_running, camera_offset, slider_thumb_x, current_mode,
                  TIMESTEP, preview_mass, steps >>

MouseMotion(pos, hold_duration) ==
  /\ IF dragging_slider
     THEN /\ slider_thumb_x' = SliderNewX(pos[1])
          /\ TIMESTEP' = SliderTimestep(SliderNewX(pos[1]))
          /\ UNCHANGED preview_mass
     ELSE IF click_position # None
     THEN /\ focused_body_index = 0 - 1 \/ InRange(bodies, focused_body_index)
          /\ preview_mass' = PreviewMass(current_mode, hold_duration)
          /\ UNCHANGED << slider_thumb_x, TIMESTEP >>
     ELSE UNCHANGED << slider_thumb_x, TIMESTEP, preview_mass >>
  /\ NoRecords
  /\ UNCHANGED << bodies, simulation_running, camera_offset, focused_body_index,
                  dragging_slider, current_mode, click_position, steps >>

\* the end of one pass of the main loop: integrate when running, then let the
\* camera follow the focused body (drawing changes no state)
Frame ==
  /\ focused_body_index = 0 - 1 \/ InRange(bodies, focused_body_index)
  /\ IF simulation_running /\ Len(bodies) > 0
     THEN /\ steps < MaxSteps
          /\ \E r \in {Step(bodies, TIMESTEP)} :
                /\ forces' = r.forces
                /\ pairs' = r.pairs
                /\ bodies' = r.bodies
          /\ steps' = steps + 1
     ELSE /\ forces' = << >>
          /\ pairs' = << >>
          /\ UNCHANGED << bodies, steps >>
  /\ camera_offset' = IF focused_body_index # 0 - 1
                      THEN Position(Item(bodies', focused_body_index))
                      ELSE camera_offset
  /\ tab' = NoTab
  /\ call_mass' = NoCall
  /\ del_index' = NoDel
  /\ UNCHANGED << simulation_running, focused_body_index, slider_thumb_x,
                  dragging_slider, current_mode, TIMESTEP, click_position,
                  preview_mass >>

Next ==
  \/ KeySpace
  \/ KeyP
  \/ KeyC
  \/ KeyTab
  \/ KeyU
  \/ KeyX
  \/ \E pos \in CanvasPoints : MouseButtonDown(pos)
  \/ \E pos \in CanvasPoints : MouseButtonUp(pos)
  \/ \E pos \in CanvasPoints : \E hold_duration \in ShortHolds : MouseMotion(pos, hold_duration)
  \/ Frame

Spec == Init /\ [][Next]_vars

\* the mouse and mode handlers driven by mouse events on the slider
NextSlider ==
  \/ KeyP
  \/ KeyC
  \/ \E pos \in SliderButtonPoints : MouseButtonDown(pos)
  \/ \E pos \in SliderButtonPoints : MouseButtonUp(pos)
  \/ \E pos \in SliderMotionPoints : \E hold_duration \in LongHolds : MouseMotion(pos, hold_duration)

SpecSlider == Init /\ [][NextSlider]_vars

\* ------------------------------------------------------------------------
\* The integrator on worlds the event loop can build
\* ------------------------------------------------------------------------
\* bodies as add_body leaves them: masses are preview masses, positions are
\* pixels scaled by SCALE (zoomed in for the pair closer than the softening)
PhysBodies ==
  { [ mass |-> PROXIMA_MIN_MASS, type |-> "star",
      state |-> << Zero, Zero, Zero, Zero >> ],
    [ mass |-> StarPreview(Fl(1, 0)), type |-> "star",
      state |-> << Fl(1, 9), Zero, Zero, Fl(1, 3) >> ],
    [ mass |-> PlanetPreview(Fl(1, 0)), type |-> "planet",
      state |-> << Fl(5, 6), Zero, Zero, Zero >> ],
    [ mass |-> JUPITER_MAX_MASS, type |-> "planet",
      state |-> << Zero, Zero, Fl(1, 3), Zero >> ],
    [ mass |-> PROXIMA_MIN_MASS, type |-> "star",
      state |-> << Fl(3, 9), Fl(4, 9), Zero, Zero >> ] }

\* timesteps the slider can set
PhysTimesteps == { INITIAL_TIMESTEP, SliderTimestep(SliderLeft + 5) }

InitPhys ==
  /\ \E n \in 2..MaxBodies : bodies \in [ 1..n -> PhysBodies ]
  /\ simulation_running = TRUE
  /\ camera_offset = ZeroVec
  /\ focused_body_index = Len(bodies) - 1
  /\ slider_thumb_x = ThumbInitX
  /\ dragging_slider = FALSE
  /\ current_mode = "star"
  /\ TIMESTEP \in PhysTimesteps
  /\ click_position = None
  /\ preview_mass = Zero
  /\ forces = << >>
  /\ pairs = << >>
  /\ tab = NoTab
  /\ call_mass = NoCall
  /\ del_index = NoDel
  /\ steps = 0

NextPhys == Frame

SpecPhys == InitPhys /\ [][NextPhys]_vars

\* ------------------------------------------------------------------------
\* add_body called with any mass
\* ------------------------------------------------------------------------
ApiMasses == { Zero, Fl(0 - 5, 0), PLUTO_MIN_MASS, PROXIMA_MIN_MASS }

AddBodyCall(position, mode, mass) ==
  /\ Len(bodies) < MaxBodies
  /\ bodies' = add_body(bodies, camera_offset, position, ZeroVec, mode, mass)
  /\ focused_body_index' = FocusAfterAdd(bodies')
  /\ call_mass' = << mass >>
  /\ forces' = << >>
  /\ pairs' = << >>
  /\ tab' = NoTab
  /\ del_index' = NoDel
  /\ UNCHANGED << simulation_running, camera_offset, slider_thumb_x,
                  dragging_slider, current_mode, TIMESTEP, click_position,
                  preview_mass, steps >>

NextApi ==
  \E position \in CanvasPoints : \E mode \in Modes : \E mass \in ApiMasses :
    AddBodyCall(position, mode, mass)

SpecApi == Init /\ [][NextApi]_vars

\* ------------------------------------------------------------------------
\* Properties
\* ------------------------------------------------------------------------
Positive(x) == x.m > 0

HasMode(bs, mode) == \E i \in 1..Len(bs) : bs[i].type = mode

\* C1: add_body with a mass <= 0 is rejected and leaves the list of bodies as
\* it was, so that no body with a non-positive mass is ever stored.
C1_NonPositiveMassRejected ==
  [][ /\ \A i \in 1..Len(bodies') : Positive(bodies'[i].mass)
      /\ (call_mass' # NoCall /\ ~Positive(call_mass'[1])) => bodies' = bodies ]_vars

\* C2: every star has a mass of at least PROXIMA_MIN_MASS and every planet a
\* mass of at most JUPITER_MAX_MASS, whatever the order of the mouse and mode
\* events was.
C2_MassClamps ==
  \A i \in 1..Len(bodies) :
    /\ bodies[i].type = "star" => FLe(PROXIMA_MIN_MASS, bodies[i].mass)
    /\ bodies[i].type = "planet" => FLe(bodies[i].mass, JUPITER_MAX_MASS)

\* C3: the timestep is strictly positive and within the range of the slider
\* in every reachable state.
C3_TimestepPositive ==
  /\ TIMESTEP > 0
  /\ TIMESTEP <= SliderTimestep(SliderRight - THUMB_WIDTH)

\* C4: in one step every body's velocity becomes old velocity + (force / mass)
\* * timestep and its position becomes old position + NEW velocity * timestep.
C4_SemiImplicitEuler ==
  [][ steps' = steps + 1 =>
        /\ Len(bodies') = Len(bodies)
        /\ \A i \in 1..Len(bodies) :
             LET old == bodies[i].state
                 new == bodies'[i].state
                 f   == forces'[i]
                 m   == bodies[i].mass
                 dt  == FromInt(TIMESTEP)
             IN /\ new[3] = FAdd(old[3], FMul(FDiv(f[1], m), dt))
                /\ new[4] = FAdd(old[4], FMul(FDiv(f[2], m), dt))
                /\ new[1] = FAdd(old[1], FMul(new[3], dt))
                /\ new[2] = FAdd(old[2], FMul(new[4], dt)) ]_vars

\* a step was taken with a positive timestep in which some body was pulled and
\* was already moving, so that old and new velocity give different positions
C4_Witness ==
  /\ steps > 0 /\ forces # << >> /\ TIMESTEP > 0
  /\ \E i \in 1..Len(bodies) :
       /\ forces[i] # ZeroVec
       /\ FSub(bodies[i].state[3], FMul(FDiv(forces[i][1], bodies[i].mass),
                                        FromInt(TIMESTEP))) # Zero
       /\ bodies[i].state[3] # Zero

\* C5: the forces of a step are all computed from the positions the bodies
\* had at the start of the step: every displacement and every force of the
\* step is the one of the bodies before the step.
C5_ForcesFromStartOfStep ==
  [][ steps' = steps + 1 =>
        /\ DOMAIN pairs' = OrderedPairs(Len(bodies))
        /\ \A p \in DOMAIN pairs' :
             pairs'[p].r_vec = << FSub(bodies[p[2]].state[1], bodies[p[1]].state[1]),
                                  FSub(bodies[p[2]].state[2], bodies[p[1]].state[2]) >>
        /\ forces' = [ i \in 1..Len(bodies) |-> ForceOn(bodies, i) ] ]_vars

\* a step moved a body that other bodies read after it
C5_Witness ==
  /\ steps > 0 /\ Len(bodies) >= 2 /\ forces # << >> /\ TIMESTEP > 0
  /\ forces[1] # ZeroVec
  /\ forces[2] # ZeroVec

\* C6: the distance whose cube divides a pair's force is max(|r|, 1e7): never
\* below the softening radius, the true separation when that is at least the
\* radius, and a pair of coinciding bodies contributes the zero force.
C6_SoftenedDistance ==
  [][ steps' = steps + 1 =>
        \A p \in DOMAIN pairs' :
          LET q == pairs'[p]
              r == Norm(RVec(bodies[p[1]], bodies[p[2]]))
          IN /\ q.norm = r
             /\ q.r_mag = FMax(r, SOFTENING)
             /\ FLe(SOFTENING, q.r_mag)
             /\ FLe(SOFTENING, r) => q.r_mag = r
             /\ Position(bodies[p[1]]) = Position(bodies[p[2]]) =>
                  q.contrib = ZeroVec ]_vars

\* a step evaluated a coinciding pair and a pair further apart than the
\* softening radius
C6_Witness ==
  /\ steps > 0
  /\ \E p \in DOMAIN pairs : pairs[p].r_vec = ZeroVec /\ pairs[p].r_mag = SOFTENING
  /\ \E p \in DOMAIN pairs : FLt(SOFTENING, pairs[p].norm) /\ pairs[p].r_mag = pairs[p].norm

\* C7 as stated: above the softening radius the contribution on i from j is
\* exactly the negative of the one on j from i, and the forces of a step sum
\* to zero.
C7_ExactAntisymmetry ==
  /\ \A p \in DOMAIN pairs :
       FLe(SOFTENING, pairs[p].norm) =>
         pairs[p].contrib = VNeg(pairs[<< p[2], p[1] >>].contrib)
  /\ forces # << >> =>
       LET RECURSIVE Sum(_)
           Sum(i) == IF i = 0 THEN ZeroVec ELSE VAdd(Sum(i - 1), forces[i])
       IN Sum(Len(forces)) = ZeroVec

\* C7 as amended: for every pair the displacement of (i, j) is exactly the
\* negative of the one of (j, i) and the softened distance is the same, and
\* the contribution on i from j is exactly the negative of the one on j from
\* i whenever the rounded product G * m_i * m_j is the same in both orders;
\* two bodies with such a product get forces that sum to zero.
C7_AntisymmetryUpToCoefficient ==
  /\ \A p \in DOMAIN pairs :
       LET q == pairs[p]
           o == pairs[<< p[2], p[1] >>]
       IN /\ q.r_vec = VNeg(o.r_vec)
          /\ q.r_mag = o.r_mag
          /\ q.coef = o.coef => q.contrib = VNeg(o.contrib)
  /\ (Len(forces) = 2 /\ pairs[<< 1, 2 >>].coef = pairs[<< 2, 1 >>].coef) =>
       VAdd(forces[1], forces[2]) = ZeroVec

\* a step evaluated a pair of bodies further apart than the softening radius
\* whose product is the same in both orders, and a pair whose product is not
C7_Witness ==
  /\ steps > 0
  /\ \E p \in DOMAIN pairs :
       /\ pairs[p].coef = pairs[<< p[2], p[1] >>].coef
       /\ FLt(SOFTENING, pairs[p].norm)
       /\ pairs[p].contrib # ZeroVec
  /\ \E p \in DOMAIN pairs : pairs[p].coef # pairs[<< p[2], p[1] >>].coef

\* C8: deleting the body at index k leaves exactly the other bodies, in their
\* order: those before k where they were, those after k one index lower.
C8_RemovalShifts ==
  [][ del_index' # NoDel =>
        LET k == del_index'[1]
            n == Len(bodies)
        IN /\ 0 <= k /\ k < n
           /\ Len(bodies') = n - 1
           /\ \A i \in 0..(n - 1) :
                /\ i < k => Item(bodies', i) = Item(bodies, i)
                /\ i > k => Item(bodies', i - 1) = Item(bodies, i) ]_vars

\* the middle one of three bodies was deleted and the two left differ
C8_Witness ==
  /\ del_index = << 1 >>
  /\ Len(bodies) = 2
  /\ bodies[1] # bodies[2]

C10_FocusValid ==
  /\ focused_body_index = 0 - 1 \/ InRange(bodies, focused_body_index)
  /\ del_index # NoDel => focused_body_index = 0 - 1
  /\ call_mass # NoCall => focused_body_index = Len(bodies) - 1

\* the last body of a list was deleted after a step, and bodies are left
C10_Witness ==
  /\ del_index # NoDel
  /\ del_index[1] = Len(bodies)
  /\ Len(bodies) > 0
  /\ steps > 0

====
